---- MODULE Spec2Model ----
(***************************************************************************)
(* Model of st_curreny_converter.py: the rate fetcher get_exchange_rate    *)
(* and the Streamlit page that drives it (presets, the two currency        *)
(* selectboxes, the amount field and the Convert button).                  *)
(*                                                                         *)
(* Python and JSON values are tagged records [kind, num, str] so that a    *)
(* number, a string and null can be told apart and compared.  Numbers are  *)
(* kept in hundredths (1.25 is 125).  The arrow of the preset labels is    *)
(* written "->".                                                           *)
(***************************************************************************)
EXTENDS Integers, Sequences, FiniteSets, TLC

\* ------------------------------------------------------------------ bounds
\* Largest value of the amount field that is explored (the field starts at 0).
MaxAmount == 1
\* Largest number of get_exchange_rate invocations in one behaviour.
MaxFetches == 1

\* ------------------------------------------------------------------ values
JNumber(n) == [kind |-> "number", num |-> n, str |-> ""]
JInfinity  == [kind |-> "infinity", num |-> 0, str |-> ""]
JString(s) == [kind |-> "string", num |-> 0, str |-> s]
\* JSON null, which response.json() turns into Python's None.
None       == [kind |-> "null", num |-> 0, str |-> ""]
\* A key that the JSON object does not have.
Absent     == [kind |-> "absent", num |-> 0, str |-> ""]

\* dict.get(key, default) on a field that may be missing.
DictGet(field, default) == IF field = Absent THEN default ELSE field

\* str.upper() on the currency codes that are passed in.
Upper(s) ==
    CASE s = "usd" -> "USD"
      [] s = "gbp" -> "GBP"
      [] OTHER     -> s

\* ------------------------------------------------------------------ page data
currency_list == <<"GBP", "USD", "EUR", "INR", "AUD", "CAD", "JPY", "CHF", "CNY">>

Codes == {currency_list[i] : i \in 1..Len(currency_list)}

NoCode == "None"

\* list(preset_map.keys()), in insertion order
preset_options ==
    <<"Custom", "GBP -> USD (default)", "USD -> GBP", "EUR -> GBP",
      "GBP -> INR", "EUR -> USD">>

PresetLabels == {preset_options[i] : i \in 1..Len(preset_options)}

preset_map(label) ==
    CASE label = "Custom"               -> <<NoCode, NoCode>>
      [] label = "GBP -> USD (default)" -> <<"GBP", "USD">>
      [] label = "USD -> GBP"           -> <<"USD", "GBP">>
      [] label = "EUR -> GBP"           -> <<"EUR", "GBP">>
      [] label = "GBP -> INR"           -> <<"GBP", "INR">>
      [] label = "EUR -> USD"           -> <<"EUR", "USD">>

\* list.index(x): the 0-based position of the first element equal to x.
ListIndex(list, x) ==
    (CHOOSE i \in 1..Len(list) :
        list[i] = x /\ \A j \in 1..(i - 1) : list[j] # x) - 1

VARIABLES
    session_state,    \* st.session_state: [from_currency, to_currency]
    preset_label,     \* value of the preset selectbox
    from_currency,    \* value of the "From currency" selectbox
    to_currency,      \* value of the "To currency" selectbox
    amount,           \* value of the amount field
    ui_state,         \* "Idle", or "Fetching" while get_exchange_rate runs
    display,          \* what the Convert handler rendered in the last run
    pc,               \* position inside get_exchange_rate
    base_currency,    \* argument of the running get_exchange_rate
    target_currency,  \* argument of the running get_exchange_rate
    response,         \* the provider's answer to the GET of the call
    result,           \* <<rate, api_time_str>> returned by the call
    log,              \* lines of currency_converter.log
    fetch_calls,      \* number of get_exchange_rate invocations
    http_requests,    \* number of requests.get calls issued
    failures          \* number of (None, None) results returned

vars ==
    <<session_state, preset_label, from_currency, to_currency, amount,
      ui_state, display, pc, base_currency, target_currency, response,
      result, log, fetch_calls, http_requests, failures>>

ui_vars == <<session_state, preset_label, from_currency, to_currency, amount,
             ui_state, display>>

\* ------------------------------------------------------------------ provider
\* The rates field of a response body: missing, null, or a JSON object.
NoTable == [c \in {} |-> None]
RatesAbsent == [kind |-> "absent", table |-> NoTable]
RatesNull   == [kind |-> "null", table |-> NoTable]
RatesTable(keys, v) == [kind |-> "object", table |-> [c \in keys |-> v]]

NotJsonBody ==
    [is_json |-> FALSE, shape |-> "none", result |-> Absent,
     time_last_update_utc |-> Absent, rates |-> RatesAbsent]
JsonArrayBody ==
    [is_json |-> TRUE, shape |-> "array", result |-> Absent,
     time_last_update_utc |-> Absent, rates |-> RatesAbsent]
JsonObject(res, time, rates) ==
    [is_json |-> TRUE, shape |-> "object", result |-> res,
     time_last_update_utc |-> time, rates |-> rates]

ApiTime == JString("Fri, 02 Apr 2020 00:06:37 +0000")

ResultValues == {JString("success"), JString("fail"), JString("Success"), Absent}
TimeValues   == {ApiTime, Absent, None}
RateValues   ==
    {JNumber(125), JNumber(0), JNumber(-125), JInfinity, JString("1.25"), None}

RatesValues(base, target) ==
    {RatesAbsent, RatesNull, RatesTable({}, None),
     RatesTable({Upper(base)} \ {Upper(target)}, JNumber(100))}
    \cup {RatesTable({Upper(target)}, v) : v \in RateValues}

Bodies(base, target) ==
    {NotJsonBody, JsonArrayBody}
    \cup {JsonObject(res, time, rates) :
            res \in ResultValues, time \in TimeValues,
            rates \in RatesValues(base, target)}

GoodBody(target) ==
    JsonObject(JString("success"), ApiTime, RatesTable({Upper(target)}, JNumber(125)))

HttpResponse(transport, status, body) ==
    [transport |-> transport, status_code |-> status, body |-> body]

NoResponse == HttpResponse("none", 0, NotJsonBody)

\* Everything requests.get can come back with for one call.
Responses(base, target) ==
    {HttpResponse("ok", s, b) : s \in {200, 300}, b \in Bodies(base, target)}
    \cup {HttpResponse("ok", s, b) :
            s \in {404, 500}, b \in {NotJsonBody, GoodBody(target)}}
    \cup {HttpResponse(t, 0, NotJsonBody) : t \in {"timeout", "connection_error"}}

\* ------------------------------------------------------------------ logging
LogEntry(level, msg) == [level |-> level, msg |-> msg]
RequestEntry       == LogEntry("INFO", "Requesting rate from open.er-api.com")
NotSuccessEntry    == LogEntry("ERROR", "API result not success")
TargetMissingEntry == LogEntry("ERROR", "Target currency not found in API response")
RateReceivedEntry  == LogEntry("INFO", "Rate received")
ExceptionEntry     == LogEntry("ERROR", "Error while fetching exchange rate")

\* A value that "%f" and the format spec ".4f" accept, and that a float
\* can be multiplied with.
IsReal(v) == v.kind \in {"number", "infinity"}

\* logging.info("Rate received: 1 %s = %f %s ...", ..., rate, ...): the
\* handler formats the record when it emits it; a formatting error is
\* caught inside logging, reported on stderr, and the line is not written.
LogRateReceived(rate) == IF IsReal(rate) THEN <<RateReceivedEntry>> ELSE <<>>

\* ------------------------------------------------------------------ fetcher
\* Slip: only server errors raise.
raise_for_status_ServerOnly(status_code) == status_code >= 500 /\ status_code < 600

\* response.raise_for_status(): TRUE when it raises HTTPError, which it does
\* for client errors (4xx) and server errors (5xx) only.
raise_for_status(status_code) == status_code >= 400 /\ status_code < 600

\* Slip: only the literal "fail" is treated as a provider failure.
ResultNotSuccess_OnlyFail(data) == DictGet(data.result, None) = JString("fail")

\* data.get("result") != "success"
ResultNotSuccess(data) == DictGet(data.result, None) # JString("success")

\* Slip: rates.get(code, 1.0), a default rate for a missing code.
RatesGet_Default(table, target) ==
    IF Upper(target) \in DOMAIN table THEN table[Upper(target)] ELSE JNumber(100)

\* rates.get(target_currency.upper()) on the rates table
RatesGet(table, target) ==
    IF Upper(target) \in DOMAIN table THEN table[Upper(target)] ELSE None

\* Slip: a misspelt key, so that the default is always returned.
ApiTimeStr_AlwaysDefault(data) == JString("Unknown")

\* data.get("time_last_update_utc", "Unknown")
ApiTimeStr(data) == DictGet(data.time_last_update_utc, JString("Unknown"))

Returned(rate, api_time_str, entries) ==
    [rate |-> rate, api_time_str |-> api_time_str, entries |-> entries]

\* The except branch: logging.exception(...) and return None, None.
ExceptionBranch == Returned(None, None, <<ExceptionEntry>>)

\* get_exchange_rate from the answer of requests.get to its return: the pair
\* it returns and the lines it logs on the way.
get_exchange_rate(base, target, resp) ==
    IF resp.transport # "ok" THEN ExceptionBranch
    ELSE IF raise_for_status(resp.status_code) THEN ExceptionBranch
    ELSE IF ~resp.body.is_json THEN ExceptionBranch
    ELSE LET data == resp.body IN
      IF data.shape # "object" THEN ExceptionBranch
      ELSE IF ResultNotSuccess(data)
        THEN Returned(None, None, <<NotSuccessEntry>>)
      ELSE IF data.rates.kind = "null" THEN ExceptionBranch
      ELSE LET rate == RatesGet(data.rates.table, target) IN
        IF rate = None
          THEN Returned(None, None, <<TargetMissingEntry>>)
          ELSE Returned(rate, ApiTimeStr(data), LogRateReceived(rate))

IsFailure(ret) == ret.rate = None /\ ret.api_time_str = None

\* ------------------------------------------------------------------ page
SessionState(f, t) == [from_currency |-> f, to_currency |-> t]

\* Slip: the preset overwrites from_currency only.
ApplyPreset_BaseOnly(ss, label) ==
    IF preset_map(label)[1] # NoCode
      THEN SessionState(preset_map(label)[1], ss.to_currency)
      ELSE ss

\* base, target = preset_map[preset_label]; a pair without None overwrites
\* both session_state entries.
ApplyPreset(ss, label) ==
    LET base   == preset_map(label)[1]
        target == preset_map(label)[2]
    IN IF base # NoCode /\ target # NoCode
         THEN SessionState(base, target)
         ELSE ss

\* index=currency_list.index(st.session_state.<entry>)
SelectIndex(code) == ListIndex(currency_list, code)

\* st.selectbox(options, index, key): the values the widget can return in a
\* run in which the user did not touch it.  It keeps the value it holds
\* while its index argument is the same as in the run before; when the
\* index argument changed, it shows the option at the new index or keeps
\* the held value, depending on how the installed Streamlit identifies a
\* keyed widget.
Selectbox(options, old_index, index, held) ==
    IF index = old_index THEN {held} ELSE {options[index + 1], held}

Warnings == {"warning_same_currency", "warning_amount"}

\* Lines 176-195: what the handler renders for the rate it got back.
\* amount * rate and f"{rate:.4f}" raise TypeError unless rate is a number.
RenderOutcome(rate) ==
    IF rate = None THEN "error"
    ELSE IF IsReal(rate) THEN "success"
    ELSE "exception"

\* Slip: amount < 0 instead of amount <= 0.
AmountRejected_Negative(a) == a < 0

\* The branch of the Convert handler taken for the current inputs.
SameCurrency(f, t) == f = t
AmountRejected(a) == a <= 0

\* Lines 27-37: the request line is logged and the one GET is issued.
FetchBegin(base, target) ==
    /\ base_currency' = base
    /\ target_currency' = target
    /\ log' = Append(log, RequestEntry)
    /\ fetch_calls' = fetch_calls + 1
    /\ http_requests' = http_requests + 1
    /\ pc' = "requested"

FailureCount(ret) == IF IsFailure(ret) THEN 1 ELSE 0

\* ------------------------------------------------------------------ Init
\* The state after the first run of the script.
Init ==
    /\ preset_label = preset_options[1 + 1]
    /\ session_state = ApplyPreset(SessionState("GBP", "USD"), preset_label)
    /\ from_currency = currency_list[SelectIndex(session_state.from_currency) + 1]
    /\ to_currency = currency_list[SelectIndex(session_state.to_currency) + 1]
    /\ amount = 1
    /\ ui_state = "Idle"
    /\ display = "none"
    /\ pc = "idle"
    /\ base_currency = NoCode
    /\ target_currency = NoCode
    /\ response = NoResponse
    /\ result = <<None, None>>
    /\ log = <<>>
    /\ fetch_calls = 0
    /\ http_requests = 0
    /\ failures = 0

fetch_vars == <<pc, base_currency, target_currency, response, result, log,
                fetch_calls, http_requests, failures>>

\* A rerun of the script caused by the preset selectbox.
ChangePreset(label) ==
    /\ ui_state = "Idle"
    /\ label # preset_label
    /\ preset_label' = label
    /\ session_state' = ApplyPreset(session_state, label)
    /\ from_currency' \in
         Selectbox(currency_list, SelectIndex(session_state.from_currency),
                   SelectIndex(session_state'.from_currency), from_currency)
    /\ to_currency' \in
         Selectbox(currency_list, SelectIndex(session_state.to_currency),
                   SelectIndex(session_state'.to_currency), to_currency)
    /\ display' = "none"
    /\ UNCHANGED <<amount, ui_state>>
    /\ UNCHANGED fetch_vars

\* A rerun caused by the "From currency" selectbox.
ChangeFrom(code) ==
    /\ ui_state = "Idle"
    /\ code # from_currency
    /\ session_state' = ApplyPreset(session_state, preset_label)
    /\ from_currency' = code
    /\ display' = "none"
    /\ UNCHANGED <<preset_label, to_currency, amount, ui_state>>
    /\ UNCHANGED fetch_vars

\* A rerun caused by the "To currency" selectbox.
ChangeTo(code) ==
    /\ ui_state = "Idle"
    /\ code # to_currency
    /\ session_state' = ApplyPreset(session_state, preset_label)
    /\ to_currency' = code
    /\ display' = "none"
    /\ UNCHANGED <<preset_label, from_currency, amount, ui_state>>
    /\ UNCHANGED fetch_vars

\* A rerun caused by the amount field (min_value=0.0).
ChangeAmount(a) ==
    /\ ui_state = "Idle"
    /\ a # amount
    /\ session_state' = ApplyPreset(session_state, preset_label)
    /\ amount' = a
    /\ display' = "none"
    /\ UNCHANGED <<preset_label, from_currency, to_currency, ui_state>>
    /\ UNCHANGED fetch_vars

\* The run caused by the Convert button, up to the GET of get_exchange_rate.
Convert ==
    /\ ui_state = "Idle"
    /\ session_state' = ApplyPreset(session_state, preset_label)
    /\ UNCHANGED <<preset_label, from_currency, to_currency, amount>>
    /\ IF SameCurrency(from_currency, to_currency)
         THEN /\ display' = "warning_same_currency"
              /\ UNCHANGED ui_state
              /\ UNCHANGED fetch_vars
       ELSE IF AmountRejected(amount)
         THEN /\ display' = "warning_amount"
              /\ UNCHANGED ui_state
              /\ UNCHANGED fetch_vars
       ELSE /\ fetch_calls < MaxFetches
            /\ ui_state' = "Fetching"
            /\ display' = "spinner"
            /\ FetchBegin(from_currency, to_currency)
            /\ UNCHANGED <<response, result, failures>>

\* The rest of that run: get_exchange_rate returns and the handler renders.
ConvertReturn ==
    /\ ui_state = "Fetching"
    /\ \E resp \in Responses(base_currency, target_currency) :
         LET ret == get_exchange_rate(base_currency, target_currency, resp)
         IN /\ log' = log \o ret.entries
            /\ failures' = failures + FailureCount(ret)
            /\ display' = RenderOutcome(ret.rate)
    /\ ui_state' = "Idle"
    /\ pc' = "idle"
    /\ base_currency' = NoCode
    /\ target_currency' = NoCode
    /\ UNCHANGED <<session_state, preset_label, from_currency, to_currency,
                   amount, response, result, fetch_calls, http_requests>>

Next ==
    \/ \E label \in PresetLabels : ChangePreset(label)
    \/ \E code \in Codes : ChangeFrom(code)
    \/ \E code \in Codes : ChangeTo(code)
    \/ \E a \in 0..MaxAmount : ChangeAmount(a)
    \/ Convert
    \/ ConvertReturn

Spec == Init /\ [][Next]_vars

\* ------------------------------------------------------------------ fetcher alone
\* get_exchange_rate called once with any pair of codes, in either case.
FetchCodes == Codes \cup {"usd", "gbp"}

FetchCall ==
    /\ pc = "idle"
    /\ fetch_calls = 0
    /\ \E base \in FetchCodes, target \in FetchCodes : FetchBegin(base, target)
    /\ UNCHANGED <<response, result, failures>>
    /\ UNCHANGED ui_vars

FetchReturn ==
    /\ pc = "requested"
    /\ \E resp \in Responses(base_currency, target_currency) :
         LET ret == get_exchange_rate(base_currency, target_currency, resp)
         IN /\ response' = resp
            /\ result' = <<ret.rate, ret.api_time_str>>
            /\ log' = log \o ret.entries
            /\ failures' = failures + FailureCount(ret)
    /\ pc' = "returned"
    /\ UNCHANGED <<base_currency, target_currency, fetch_calls, http_requests>>
    /\ UNCHANGED ui_vars

NextFetch == FetchCall \/ FetchReturn

SpecFetch == Init /\ [][NextFetch]_vars

\* ------------------------------------------------------------------ properties
data == response.body
rate == result[1]
api_time == result[2]

Failure == <<None, None>>
Returned2xx ==
    /\ pc = "returned"
    /\ response.transport = "ok"
    /\ response.status_code \in 200..299
IsJsonObject == data.is_json /\ data.shape = "object"
IsSuccessBody == IsJsonObject /\ data.result = JString("success")
HasTarget ==
    /\ data.rates.kind = "object"
    /\ Upper(target_currency) \in DOMAIN data.rates.table
StoredRate == data.rates.table[Upper(target_currency)]
AllowedDistinctPair ==
    /\ base_currency \in Codes
    /\ target_currency \in Codes
    /\ base_currency # target_currency
HasTimeString == data.time_last_update_utc.kind = "string"
IsPositiveFinite(v) == v.kind = "number" /\ v.num > 0

\* C1 as stated: for distinct allowed codes, a 2xx response that is a JSON
\* object with result "success" and the target code in rates makes the call
\* return the stored value and the response's time_last_update_utc string.
C1_AsStated ==
    (Returned2xx /\ AllowedDistinctPair /\ IsSuccessBody /\ HasTarget
        /\ HasTimeString)
    => result = <<StoredRate, data.time_last_update_utc>>

\* C1 amended: the same, for a target code whose stored value is not null.
C1_RatePassThrough ==
    (Returned2xx /\ AllowedDistinctPair /\ IsSuccessBody /\ HasTarget
        /\ StoredRate # None /\ HasTimeString)
    => result = <<StoredRate, data.time_last_update_utc>>

C1_Witness ==
    /\ Returned2xx /\ AllowedDistinctPair /\ IsSuccessBody /\ HasTarget
    /\ HasTimeString
    /\ StoredRate = JNumber(125)
    /\ result = <<JNumber(125), ApiTime>>

\* C2: a JSON object whose result field is anything but "success", missing
\* included, makes the call return (None, None) whatever else it holds.
C2_NotSuccessIsFailure ==
    (pc = "returned" /\ response.transport = "ok" /\ IsJsonObject
        /\ data.result # JString("success"))
    => result = Failure

C2_Witness ==
    /\ Returned2xx /\ IsJsonObject /\ HasTarget
    /\ data.result = Absent
    /\ StoredRate = JNumber(125)
    /\ result = Failure

\* C3: a "success" object whose rates table lacks the uppercased target
\* code, or that has no rates table, makes the call return (None, None).
C3_MissingTargetIsFailure ==
    (pc = "returned" /\ response.transport = "ok" /\ IsSuccessBody /\ ~HasTarget)
    => result = Failure

C3_Witness ==
    /\ Returned2xx /\ IsSuccessBody
    /\ data.rates.kind = "object"
    /\ DOMAIN data.rates.table = {Upper(base_currency)}
    /\ base_currency # target_currency
    /\ result = Failure

\* C4 as stated: a transport failure, a non-2xx status or a body that is not
\* JSON makes the call return (None, None) after its single GET.
C4_AsStated ==
    (pc = "returned"
        /\ (\/ response.transport # "ok"
            \/ response.status_code \notin 200..299
            \/ ~data.is_json))
    => (result = Failure /\ http_requests = 1)

\* C4 amended: a transport failure, a 4xx or 5xx status or a body that is
\* not JSON makes the call return (None, None) after its single GET.
C4_ErrorIsFailure ==
    (pc = "returned"
        /\ (\/ response.transport # "ok"
            \/ response.status_code \in 400..599
            \/ ~data.is_json))
    => (result = Failure /\ http_requests = 1)

C4_Witness ==
    /\ pc = "returned"
    /\ response.status_code = 404
    /\ data = GoodBody(target_currency)
    /\ result = Failure
    /\ http_requests = 1

\* C5: get_exchange_rate is invoked, and a GET issued, only from a run with
\* two different currencies and amount > 0; a Convert run with equal
\* currencies or amount <= 0 shows a warning and starts no fetch.
C5_RejectedConvertFetchesNothing ==
    [][/\ (fetch_calls' # fetch_calls \/ http_requests' # http_requests)
            => (from_currency # to_currency /\ amount > 0)
       /\ (Convert /\ (from_currency = to_currency \/ amount <= 0))
            => /\ display' \in Warnings
               /\ fetch_calls' = fetch_calls
               /\ http_requests' = http_requests
               /\ ui_state' = "Idle"]_vars

C5_Witness ==
    /\ display = "warning_amount"
    /\ amount <= 0
    /\ from_currency # to_currency
    /\ fetch_calls = 0 /\ http_requests = 0

C7_SuccessIsPositiveFinite ==
    pc = "returned" =>
        \/ result = Failure
        \/ /\ IsPositiveFinite(rate)
           /\ api_time.kind = "string"
           /\ api_time = data.time_last_update_utc

\* C8: a "success" response that has the target code but lacks
\* time_last_update_utc, or holds a non-number under the target code,
\* makes the call return (None, None).
C8_DeviationIsFailure ==
    (Returned2xx /\ IsSuccessBody /\ HasTarget
        /\ (data.time_last_update_utc = Absent
            \/ StoredRate.kind \notin {"number", "infinity"}))
    => result = Failure

\* C9: the page is Idle or Fetching, and a Convert run never ends in an
\* unhandled error: what it leaves rendered is a result, an error message
\* or a warning.
C9_NoUnhandledError ==
    /\ ui_state \in {"Idle", "Fetching"}
    /\ ui_state = "Fetching" => display = "spinner"
    /\ ui_state = "Idle" =>
         display \in {"none", "success", "error"} \cup Warnings

RECURSIVE CountEntries(_, _)
CountEntries(entries, wanted) ==
    IF entries = <<>> THEN 0
    ELSE (IF Head(entries) \in wanted THEN 1 ELSE 0)
         + CountEntries(Tail(entries), wanted)

ErrorEntries == {NotSuccessEntry, TargetMissingEntry, ExceptionEntry}

\* C10: the log holds one request line per get_exchange_rate invocation and
\* one error line per (None, None) returned, and every finished fetch left
\* its request line followed by exactly one outcome line.
C10_LogMatchesFetches ==
    /\ CountEntries(log, {RequestEntry}) = fetch_calls
    /\ CountEntries(log, ErrorEntries) = failures
    /\ ui_state = "Idle" => Len(log) = 2 * fetch_calls
    /\ ui_state = "Fetching" =>
         /\ Len(log) = 2 * fetch_calls - 1
         /\ log[Len(log)] = RequestEntry
====
